---- MODULE Spec2Model ----
(***************************************************************************)
(* Model of the Flask chat backend in src/app.py: the User / Conversation  *)
(* / Message tables, the identity resolver get_or_set_user, the            *)
(* conversation routes and the chat turn of POST /chat.                    *)
(*                                                                         *)
(* A request is handled by one thread.  The short handlers run as one      *)
(* step (each ends in a single commit).  The chat turn is split at the     *)
(* places where another request can run in between: after the history is   *)
(* loaded, between the evaluation of a created_at default and its INSERT,  *)
(* during the LLM call, and between the reading of title / setting of      *)
(* updated_at and the final commit.                                        *)
(*                                                                         *)
(* Time: datetime.now(timezone.utc) is the variable now.  It never goes    *)
(* back, and it has advanced whenever a request has arrived or an LLM      *)
(* round trip has ended (both take longer than the clock's resolution),    *)
(* so that only requests in flight together can read the same value.       *)
(* Only the order of the readings is ever used, so the clock is advanced   *)
(* at the arrival of the requests that read it, at the end of an LLM call  *)
(* and, in the runs that allow it (cap.flush), between the reading of      *)
(* line 227 and the flush of line 231; nowhere else.                       *)
(***************************************************************************)
EXTENDS Integers, Sequences, FiniteSets, TLC

(* ------------------------------ bounds -------------------------------- *)
MaxUsers  == 1     \* users minted by uuid4
MaxConvs  == 2     \* conversations minted by uuid4, requests one at a time
MaxMsgs   == 4     \* rows of the message table
MaxClock  == 4     \* readings of the clock, requests one at a time
MaxReqs   == 2     \* chat requests in flight
ConcConvs == 1     \* conversations minted by uuid4, requests in flight together
ConcClock == 5     \* readings of the clock, requests in flight together
StampClock == 6    \* readings of the clock when the flush can read a later one
MaxHist   == 22    \* stored messages a turn of the long-transcript runs can find

(* ------------------------- program constants -------------------------- *)
MAX_MSG_LEN        == 4000
MAX_CONTENT_LENGTH == 262144
HISTORY_WINDOW     == 20
TITLE_PREVIEW      == 30

(* ------------------------------- text --------------------------------- *)
(* A Python str is kept run-length encoded: a sequence of runs             *)
(* [c |-> character, n |-> count > 0], adjacent runs of different          *)
(* characters.  <<>> is "" (and None, which every use below treats like    *)
(* "": `s or ""`, `.get("title") or ...`, `.get("title", "")`).            *)
Whitespace == {" ", "\n"}

Rep(c, n) == IF n <= 0 THEN <<>> ELSE <<[c |-> c, n |-> n]>>

Cat(s, t) ==
    IF s = <<>> THEN t
    ELSE IF t = <<>> THEN s
    ELSE IF s[Len(s)].c = t[1].c
         THEN SubSeq(s, 1, Len(s) - 1)
              \o <<[c |-> t[1].c, n |-> s[Len(s)].n + t[1].n]>>
              \o Tail(t)
         ELSE s \o t

RECURSIVE TLen(_)
TLen(s) == IF s = <<>> THEN 0 ELSE s[1].n + TLen(Tail(s))

RECURSIVE LStrip(_)
LStrip(s) == IF s # <<>> /\ s[1].c \in Whitespace THEN LStrip(Tail(s)) ELSE s

RECURSIVE RStrip(_)
RStrip(s) ==
    IF s # <<>> /\ s[Len(s)].c \in Whitespace
    THEN RStrip(SubSeq(s, 1, Len(s) - 1)) ELSE s

Strip(s) == RStrip(LStrip(s))

RECURSIVE Take(_, _)
Take(s, n) ==
    IF n <= 0 \/ s = <<>> THEN <<>>
    ELSE IF s[1].n <= n THEN Cat(<<s[1]>>, Take(Tail(s), n - s[1].n))
    ELSE <<[c |-> s[1].c, n |-> n]>>

RECURSIVE Literal(_)
Literal(chars) ==
    IF chars = <<>> THEN <<>> ELSE Cat(Rep(chars[1], 1), Literal(Tail(chars)))

NUEVO_CHAT    == Literal(<<"N", "u", "e", "v", "o", " ", "c", "h", "a", "t">>)
CHAT_FALLBACK == Literal(<<"C", "h", "a", "t">>)
ELLIPSIS      == Rep("U+2026", 1)
SYSTEM_PROMPT == Literal(<<"S", "Y", "S">>)

clamp_text_cut_first(s, n) ==
    Strip(IF TLen(s) > n THEN Take(s, n) ELSE s)

clamp_text(s, n) ==
    LET t == Strip(s) IN IF TLen(t) > n THEN Take(t, n) ELSE t

Preview_no_marker(user_message) ==
    IF TLen(user_message) > TITLE_PREVIEW
    THEN Take(user_message, TITLE_PREVIEW) ELSE user_message

Preview(user_message) ==
    IF TLen(user_message) > TITLE_PREVIEW
    THEN Cat(Take(user_message, TITLE_PREVIEW), ELLIPSIS) ELSE user_message

DerivedTitle(user_message) ==
    IF Preview(user_message) # <<>> THEN Preview(user_message) ELSE CHAT_FALLBACK

(* ------------------------------- state -------------------------------- *)
VARIABLES
    users,      \* table user: the set of ids
    convs,      \* table conversation: id -> row
    messages,   \* table message: the set of rows
    nconv,      \* conversation ids minted so far (uuid4 never repeats)
    now,        \* the reading of datetime.now(timezone.utc)
    reqs,       \* the chat requests in flight: slot -> locals of chat()
    resp,       \* the response sent last
    cap         \* the bounds and the inputs of the run, fixed by Init

vars == <<users, convs, messages, nconv, now, reqs, resp, cap>>
db   == <<users, convs, messages>>

Reqs == 1..MaxReqs

(* Cookie and conversation_id values a client can send.  Minted ids are    *)
(* 1, 2, ...; a client cannot guess an id that was not minted yet.         *)
Absent   == 0      \* no user_id cookie (None or "")
ForgedId == 99     \* a user_id cookie the server never issued
NoCid    == 0      \* no conversation_id in the request (None or "")
BadCid   == 99     \* a conversation_id that was never minted

Cookies == cap.cookies \cup users
Cids    == {NoCid, BadCid} \cup (1..nconv)

Idle == [pc |-> "idle"]
NoResp ==
    [op |-> "none", status |-> 0, cookie |-> Absent, user |-> Absent,
     set_cookie |-> Absent, cid |-> NoCid, body |-> <<>>]

\* A response with the request it answers: the cookie and conversation id
\* the request carried, the user the resolver gave, the user_id cookie the
\* response sets (Absent: none) and the JSON body.
Response(op, status, cookie, user, set_cookie, cid, body) ==
    [op |-> op, status |-> status, cookie |-> cookie, user |-> user,
     set_cookie |-> set_cookie, cid |-> cid, body |-> body]

(* ------------------------------ queries ------------------------------- *)
SetMax(S) == CHOOSE x \in S : \A y \in S : y <= x

\* INTEGER PRIMARY KEY of SQLite: the largest rowid in the table plus one.
NextMsgId(ms) == IF ms = {} THEN 1 ELSE SetMax({m.id : m \in ms}) + 1

MessagesOf(ms, cid) == {m \in ms : m.conversation_id = cid}

\* The results ORDER BY created_at ASC can give: rows with equal created_at
\* come in an order SQL leaves open.
RECURSIVE OrderByCreatedAt(_)
OrderByCreatedAt(S) ==
    IF S = {} THEN {<<>>}
    ELSE UNION { { <<m>> \o t : t \in OrderByCreatedAt(S \ {m}) } :
                 m \in {x \in S : \A y \in S : x.created_at <= y.created_at} }

\* ORDER BY updated_at ASC: the direction of the sort mistaken
RECURSIVE OrderByUpdatedDesc_asc(_, _)
OrderByUpdatedDesc_asc(ids, cs) ==
    IF ids = {} THEN {<<>>}
    ELSE UNION { { <<c>> \o t : t \in OrderByUpdatedDesc_asc(ids \ {c}, cs) } :
                 c \in {x \in ids : \A y \in ids :
                                      cs[x].updated_at <= cs[y].updated_at} }

\* The results ORDER BY updated_at DESC can give, as sequences of ids.
RECURSIVE OrderByUpdatedDesc(_, _)
OrderByUpdatedDesc(ids, cs) ==
    IF ids = {} THEN {<<>>}
    ELSE UNION { { <<c>> \o t : t \in OrderByUpdatedDesc(ids \ {c}, cs) } :
                 c \in {x \in ids : \A y \in ids :
                                      cs[x].updated_at >= cs[y].updated_at} }

\* filter_by(id=conv_id) alone: the ownership test dropped.
FindOwned_any_user(cs, cid, uid) == cid \in DOMAIN cs

\* Conversation.query.filter_by(id=..., user_id=...).first_or_404() finds a row
FindOwned(cs, cid, uid) == cid \in DOMAIN cs /\ cs[cid].user_id = uid

Minted == users \ {ForgedId}
NewUserId == Cardinality(Minted) + 1

\* the User row of a new identity is never added
get_or_set_user_no_row(cookie) ==
    IF cookie = Absent
    THEN [user_id |-> NewUserId, users |-> users, set_cookie |-> NewUserId]
    ELSE [user_id |-> cookie, users |-> users, set_cookie |-> Absent]

\* get_or_set_user: the resolved id, the user table after the commit and the
\* cookie set on the response object it returns (Absent: none set).
get_or_set_user(cookie) ==
    IF cookie = Absent
    THEN [user_id |-> NewUserId, users |-> users \cup {NewUserId},
          set_cookie |-> NewUserId]
    ELSE [user_id |-> cookie, users |-> users \cup {cookie},
          set_cookie |-> Absent]

\* uuid4 mints the ids 1..cap.users
CanResolve(cookie) == cookie = Absent => NewUserId <= cap.users

\* chat turns that still wait for the end of their LLM call
AwaitingLLM == {q \in Reqs : reqs[q].pc \in {"stamp", "insert", "llm"}}
\* chat turns whose user message is still to be stored
AwaitingInsert == {q \in Reqs : reqs[q].pc \in {"stamp", "insert"}}
\* chat turns whose assistant message is still to be stored
AwaitingReply == {q \in Reqs : reqs[q].pc \in {"llm", "commit"}}

\* room in the message table for the two rows of a new turn, beside the
\* rows the turns in flight will still store
RoomForTurn ==
    Cardinality(messages) + 2 * Cardinality(AwaitingInsert)
        + Cardinality(AwaitingReply) + 2 <= cap.msgs

\* A request that reads the clock arrives: the clock has advanced.  k
\* readings are kept for the request itself, one for each LLM call that is
\* still to end.
Arrive(k) ==
    /\ now + k + Cardinality(AwaitingLLM) <= cap.clock
    /\ now' = now + 1

(* --------------------------- short handlers --------------------------- *)
\* GET /
home(cookie) ==
    LET g == get_or_set_user(cookie) IN
    /\ CanResolve(cookie)
    /\ users' = g.users
    /\ resp' = Response("home", 200, cookie, g.user_id, g.set_cookie, NoCid, <<>>)
    /\ UNCHANGED <<convs, messages, nconv, now, reqs, cap>>

\* GET /conversations
list_conversations(cookie) ==
    LET g == get_or_set_user(cookie)
        mine == {c \in DOMAIN convs : convs[c].user_id = g.user_id}
    IN
    /\ CanResolve(cookie)
    /\ users' = g.users
    /\ \E l \in OrderByUpdatedDesc(mine, convs) :
         resp' = Response("list", 200, cookie, g.user_id, Absent, NoCid, l)
    /\ UNCHANGED <<convs, messages, nconv, now, reqs, cap>>

\* the title create_conversation stores: .get("title") or "Nuevo chat"
CreateTitle(title) == IF title # <<>> THEN title ELSE NUEVO_CHAT

\* the row is given the cookie's value, not the resolved user: no owner when
\* the request bore no cookie
NewConversation_cookie_owner(uid, title, t) ==
    [user_id |-> Absent, title |-> title, created_at |-> t, updated_at |-> t,
     auto |-> (title = NUEVO_CHAT)]

\* Conversation(id=str(uuid4()), user_id=..., title=...) as inserted at time t.
\* auto is no column: it records that the row was created with the
\* placeholder title and no PATCH has reached it since.
NewConversation(uid, title, t) ==
    [user_id |-> uid, title |-> title, created_at |-> t, updated_at |-> t,
     auto |-> (title = NUEVO_CHAT)]

\* POST /conversations
create_conversation(cookie, title) ==
    LET g == get_or_set_user(cookie)
        id == nconv + 1
    IN
    /\ CanResolve(cookie)
    /\ nconv < cap.convs
    /\ Arrive(1)
    /\ users' = g.users
    /\ nconv' = id
    /\ convs' = [c \in DOMAIN convs \cup {id} |->
                   IF c = id
                   THEN NewConversation(g.user_id, CreateTitle(title), now')
                   ELSE convs[c]]
    /\ resp' = Response("create", 200, cookie, g.user_id, Absent, NoCid,
                        [id |-> id, title |-> CreateTitle(title)])
    /\ UNCHANGED <<messages, reqs, cap>>

\* the title rename_conversation stores: .get("title", "").strip() or conv.title
RenameTitle(title, old) == IF Strip(title) # <<>> THEN Strip(title) ELSE old

\* PATCH /conversations/<conv_id>
rename_conversation(cookie, cid, title) ==
    LET g == get_or_set_user(cookie) IN
    /\ CanResolve(cookie)
    /\ users' = g.users
    /\ IF FindOwned(convs, cid, g.user_id)
       THEN /\ Arrive(1)
            /\ convs' = [convs EXCEPT
                           ![cid].title = RenameTitle(title, convs[cid].title),
                           ![cid].updated_at = now',
                           ![cid].auto = FALSE]
            /\ resp' = Response("rename", 200, cookie, g.user_id, Absent, cid, <<>>)
       ELSE /\ UNCHANGED <<convs, now>>
            /\ resp' = Response("rename", 404, cookie, g.user_id, Absent, cid, <<>>)
    /\ UNCHANGED <<messages, nconv, reqs, cap>>

\* the bulk delete skipped and no cascade: only the conversation row goes
RowsAfterDelete_keep(ms, cid) == ms

\* the message table after Message.query.filter_by(conversation_id=...).delete()
\* and the cascades of db.session.delete(conv)
RowsAfterDelete(ms, cid) == {m \in ms : m.conversation_id # cid}

\* DELETE /conversations/<conv_id>
delete_conversation(cookie, cid) ==
    LET g == get_or_set_user(cookie) IN
    /\ CanResolve(cookie)
    /\ users' = g.users
    /\ IF FindOwned(convs, cid, g.user_id)
       THEN /\ messages' = RowsAfterDelete(messages, cid)
            /\ convs' = [c \in DOMAIN convs \ {cid} |-> convs[c]]
            /\ resp' = Response("delete", 200, cookie, g.user_id, Absent, cid, <<>>)
       ELSE /\ UNCHANGED <<convs, messages>>
            /\ resp' = Response("delete", 404, cookie, g.user_id, Absent, cid, <<>>)
    /\ UNCHANGED <<nconv, now, reqs, cap>>

\* GET /history
history(cookie, cid) ==
    LET g == get_or_set_user(cookie) IN
    /\ CanResolve(cookie)
    /\ users' = g.users
    /\ IF FindOwned(convs, cid, g.user_id)
       THEN \E msgs \in OrderByCreatedAt(MessagesOf(messages, cid)) :
              resp' = Response("history", 200, cookie, g.user_id, Absent, cid, msgs)
       ELSE resp' = Response("history", 404, cookie, g.user_id, Absent, cid, <<>>)
    /\ UNCHANGED <<convs, messages, nconv, now, reqs, cap>>

(* ------------------------------ POST /chat ---------------------------- *)
\* history_msgs[:20]: the head of the transcript instead of its tail
Window_oldest(history_msgs) ==
    IF Len(history_msgs) <= HISTORY_WINDOW THEN history_msgs
    ELSE SubSeq(history_msgs, 1, HISTORY_WINDOW)

\* history_msgs[-20:]
Window(history_msgs) ==
    IF Len(history_msgs) <= HISTORY_WINDOW THEN history_msgs
    ELSE SubSeq(history_msgs, Len(history_msgs) - HISTORY_WINDOW + 1,
                Len(history_msgs))

Entry(role, content) == [role |-> role, content |-> content]

\* the loop over history_msgs left out: no prior message is sent
BuildContext_no_history(history_msgs, user_message) ==
    <<Entry("system", SYSTEM_PROMPT), Entry("user", user_message)>>

\* the list `messages` of chat(): what is sent to the LLM
BuildContext(history_msgs, user_message) ==
    <<Entry("system", SYSTEM_PROMPT)>>
    \o [i \in 1..Len(Window(history_msgs)) |->
          Entry(Window(history_msgs)[i].role, Window(history_msgs)[i].content)]
    \o <<Entry("user", user_message)>>

\* the role strings of the two INSERTs exchanged
Row_roles_swapped(id, cid, role, content, t) ==
    [id |-> id, conversation_id |-> cid,
     role |-> IF role = "user" THEN "assistant" ELSE "user",
     content |-> content, created_at |-> t]

Row(id, cid, role, content, t) ==
    [id |-> id, conversation_id |-> cid, role |-> role, content |-> content,
     created_at |-> t]

\* Lines 181-204: resolve the user, read and check the message, resolve or
\* create the conversation, load the transcript and build the context.
chat_start(r, cookie, raw, cid) ==
    LET g  == get_or_set_user(cookie)
        um == clamp_text(raw, MAX_MSG_LEN)
        id == nconv + 1
        Reply(status) ==
            /\ resp' = Response("chat", status, cookie, g.user_id, Absent, cid, <<>>)
            /\ UNCHANGED <<convs, messages, nconv, now, reqs, cap>>
        Begin(conversation_id, cs, created) ==
            \E history_msgs \in
                 OrderByCreatedAt(MessagesOf(messages, conversation_id)) :
              reqs' = [reqs EXCEPT ![r] =
                 [pc |-> "stamp", cookie |-> cookie, cid |-> cid,
                  user_id |-> g.user_id, raw |-> raw, user_message |-> um,
                  conversation_id |-> conversation_id, created |-> created,
                  history_msgs |-> history_msgs,
                  messages |-> BuildContext(history_msgs, um),
                  pre |-> [title |-> cs[conversation_id].title,
                           updated_at |-> cs[conversation_id].updated_at,
                           convs |-> DOMAIN convs,
                           ids |-> {m.id : m \in messages},
                           rows |-> MessagesOf(messages, conversation_id)]]]
    IN
    /\ reqs[r].pc = "idle"
    /\ CanResolve(cookie)
    /\ users' = g.users
    /\ IF TLen(raw) > MAX_CONTENT_LENGTH THEN Reply(413)   \* get_json raises
       ELSE IF um = <<>> THEN Reply(400)
       ELSE IF cid = NoCid
       THEN /\ nconv < cap.convs
            /\ RoomForTurn
            /\ Arrive(2)
            /\ nconv' = id
            /\ convs' = [c \in DOMAIN convs \cup {id} |->
                           IF c = id
                           THEN NewConversation(g.user_id, NUEVO_CHAT, now')
                           ELSE convs[c]]
            /\ Begin(id, convs', TRUE)
            /\ UNCHANGED <<messages, resp, cap>>
       ELSE IF FindOwned(convs, cid, g.user_id)
       THEN /\ RoomForTurn
            /\ Arrive(2)
            /\ Begin(cid, convs, FALSE)
            /\ UNCHANGED <<convs, messages, nconv, resp, cap>>
       ELSE Reply(404)

\* PRAGMA foreign_keys is off: any conversation_id can be stored
ForeignKeyOk_off(cs, cid) == TRUE

\* PRAGMA foreign_keys=ON with message.conversation_id -> conversation.id:
\* a message row can be stored only for a conversation row that exists
ForeignKeyOk(cs, cid) == cid \in DOMAIN cs

\* Line 208, first half: the flush evaluates the created_at default.
chat_stamp_user(r) ==
    /\ reqs[r].pc = "stamp"
    /\ reqs' = [reqs EXCEPT ![r] =
                  [f \in DOMAIN reqs[r] \cup {"created_at"} |->
                     IF f = "pc" THEN "insert"
                     ELSE IF f = "created_at" THEN now
                     ELSE reqs[r][f]]]
    /\ UNCHANGED <<users, convs, messages, nconv, now, resp, cap>>

\* Lines 207-208: INSERT the user message and commit.
chat_insert_user(r) ==
    /\ reqs[r].pc = "insert"
    /\ ForeignKeyOk(convs, reqs[r].conversation_id)
    /\ messages' = messages \cup
         {Row(NextMsgId(messages), reqs[r].conversation_id, "user",
              reqs[r].user_message, reqs[r].created_at)}
    /\ reqs' = [reqs EXCEPT ![r] =
                  [f \in DOMAIN reqs[r] \cup {"user_msg_id"} |->
                     IF f = "pc" THEN "llm"
                     ELSE IF f = "user_msg_id" THEN NextMsgId(messages)
                     ELSE reqs[r][f]]]
    /\ UNCHANGED <<users, convs, nconv, now, resp, cap>>

\* an unhandled exception: Flask answers 500, the session is rolled back
Abort(r) ==
    /\ resp' = Response("chat", 500, reqs[r].cookie, reqs[r].user_id, Absent,
                        reqs[r].cid, <<>>)
    /\ reqs' = [reqs EXCEPT ![r] = Idle]

\* Line 208 when the conversation was deleted meanwhile: with foreign keys
\* ON the INSERT violates message.conversation_id -> conversation.id.
chat_insert_user_fk(r) ==
    /\ reqs[r].pc = "insert"
    /\ ~ForeignKeyOk(convs, reqs[r].conversation_id)
    /\ Abort(r)
    /\ UNCHANGED <<users, convs, messages, nconv, now, cap>>

\* the except branch also refreshes updated_at
FailureTouch_refresh(cs, cid, t) ==
    IF cid \in DOMAIN cs THEN [cs EXCEPT ![cid].updated_at = t] ELSE cs

\* Lines 221-223: the conversation table after the except branch
FailureTouch(cs, cid, t) == cs

\* Lines 211-223: the LLM call raises.
chat_llm_fail(r) ==
    /\ reqs[r].pc = "llm"
    /\ now' = now + 1
    /\ convs' = FailureTouch(convs, reqs[r].conversation_id, now')
    /\ resp' = Response("chat", 503, reqs[r].cookie, reqs[r].user_id, Absent,
                        reqs[r].cid, <<>>)
    /\ reqs' = [reqs EXCEPT ![r] = Idle]
    /\ UNCHANGED <<users, messages, nconv, cap>>

\* the title is derived whatever the stored title is
TitleIsPlaceholder_always(title) == TRUE

\* Line 228: conv.title == "Nuevo chat"
TitleIsPlaceholder(title) == title = NUEVO_CHAT

\* Line 227: conv.updated_at = datetime.now(timezone.utc), read at time t
RefreshedAt(old, t) == t

\* Lines 212-230: the LLM call returns reply; the assistant message is added
\* to the session, updated_at is set from the clock, the title is read from
\* the conversation row and, when it is the placeholder, set to the preview.
chat_llm_ok(r, reply) ==
    LET cid == reqs[r].conversation_id IN
    /\ reqs[r].pc = "llm"
    /\ cid \in DOMAIN convs
    /\ now' = now + 1
    /\ reqs' = [reqs EXCEPT ![r] =
                  [f \in DOMAIN reqs[r] \cup {"reply", "updated_at", "set_title", "title"} |->
                     IF f = "pc" THEN "commit"
                     ELSE IF f = "reply" THEN reply
                     ELSE IF f = "updated_at"
                       THEN RefreshedAt(convs[cid].updated_at, now')
                     ELSE IF f = "set_title" THEN TitleIsPlaceholder(convs[cid].title)
                     ELSE IF f = "title" THEN DerivedTitle(reqs[r].user_message)
                     ELSE reqs[r][f]]]
    /\ UNCHANGED <<users, convs, messages, nconv, resp, cap>>

\* Line 228 when the conversation was deleted meanwhile: the refresh of the
\* expired conv finds no row (ObjectDeletedError).
chat_llm_ok_gone(r) ==
    /\ reqs[r].pc = "llm"
    /\ reqs[r].conversation_id \notin DOMAIN convs
    /\ now' = now + 1
    /\ Abort(r)
    /\ UNCHANGED <<users, convs, messages, nconv, cap>>

\* Line 231: the flush INSERTs the assistant message (its created_at default
\* is evaluated now, d readings of the clock after line 227), UPDATEs the
\* conversation, and the commit ends the turn.
chat_commit(r) ==
    LET cid == reqs[r].conversation_id IN
    /\ reqs[r].pc = "commit"
    /\ cid \in DOMAIN convs
    /\ ForeignKeyOk(convs, cid)
    /\ \E d \in cap.flush :
         /\ d > 0 => now + d + Cardinality(AwaitingLLM) <= cap.clock
         /\ now' = now + d
    /\ messages' = messages \cup
         {Row(NextMsgId(messages), cid, "assistant", reqs[r].reply, now')}
    /\ convs' = [convs EXCEPT
                   ![cid].updated_at = reqs[r].updated_at,
                   ![cid].title = IF reqs[r].set_title THEN reqs[r].title ELSE @]
    /\ resp' = Response("chat", 200, reqs[r].cookie, reqs[r].user_id, Absent,
                        reqs[r].cid,
                        [reply |-> reqs[r].reply, conversation_id |-> cid])
    /\ reqs' = [reqs EXCEPT ![r] = Idle]
    /\ UNCHANGED <<users, nconv, cap>>

\* Line 231 when the conversation was deleted meanwhile: the UPDATE matches
\* no row and the INSERT violates the foreign key; nothing is stored.
chat_commit_gone(r) ==
    /\ reqs[r].pc = "commit"
    /\ reqs[r].conversation_id \notin DOMAIN convs
    /\ Abort(r)
    /\ UNCHANGED <<users, convs, messages, nconv, now, cap>>

(* ------------------------------- inputs ------------------------------- *)
A(n)   == Rep("a", n)
B(n)   == Rep("b", n)
Pad(s) == Cat(Cat(Rep(" ", 1), s), Rep(" ", 2))

\* message texts: none, blank, short, padded, the placeholder itself, around
\* the preview length, around the clamp length, over the request size cap
TextsSmall == {<<>>, A(2), B(31)}
TextsRich ==
    {<<>>, Rep(" ", 3), A(2), Pad(B(10)), NUEVO_CHAT, A(30), B(31), A(38),
     A(MAX_MSG_LEN), B(MAX_MSG_LEN + 1), Pad(A(MAX_MSG_LEN + 1)),
     Cat(B(MAX_MSG_LEN - 1), Rep(" ", 2)), Rep(" ", MAX_MSG_LEN + 1),
     A(MAX_CONTENT_LENGTH + 1)}
TitlesSmall == {<<>>, Pad(Rep("t", 3))}
TitlesRich  == {<<>>, Rep(" ", 2), Pad(Rep("t", 3)), NUEVO_CHAT}
Replies == {Rep("r", 2)}

(* ------------------------------- system ------------------------------- *)
InitDb ==
    /\ users = {}
    /\ convs = <<>>
    /\ messages = {}
    /\ nconv = 0
    /\ now = 0
    /\ reqs = [r \in Reqs |-> Idle]
    /\ resp = NoResp

Caps(m, k, u, c, cookies, texts, titles) ==
    [msgs |-> m, clock |-> k, users |-> u, convs |-> c,
     cookies |-> cookies, texts |-> texts, titles |-> titles, flush |-> {0}]

\* one client, one conversation, requests in flight together
Init ==
    /\ InitDb
    /\ cap = Caps(MaxMsgs, ConcClock, MaxUsers, ConcConvs, {Absent},
                  {<<>>, A(2)}, TitlesSmall)

\* clients with, without and with a forged cookie; two conversations
SeqInit ==
    /\ InitDb
    /\ cap = Caps(MaxMsgs, MaxClock, MaxUsers, MaxConvs, {Absent, ForgedId},
                  TextsSmall, TitlesSmall)

\* one client, one conversation, every kind of text
TextInit ==
    /\ InitDb
    /\ cap = Caps(MaxMsgs, MaxClock, MaxUsers, ConcConvs, {Absent},
                  TextsRich, TitlesRich)

\* one client, one conversation, a transcript longer than the window
WindowInit ==
    /\ InitDb
    /\ cap = Caps(MaxHist + 2, MaxHist + 4, MaxUsers, ConcConvs, {Absent},
                  {A(2)}, {<<>>})

\* one client, one conversation; the clock can advance between line 227 and
\* the flush of line 231
StampInit ==
    /\ InitDb
    /\ cap = [Caps(MaxMsgs, StampClock, MaxUsers, ConcConvs, {Absent},
                   {<<>>, A(2)}, TitlesSmall) EXCEPT !.flush = {0, 1}]

AllIdle == \A r \in Reqs : reqs[r].pc = "idle"

Short ==
    \E cookie \in Cookies :
       \/ home(cookie)
       \/ list_conversations(cookie)
       \/ \E title \in cap.titles : create_conversation(cookie, title)
       \/ \E cid \in Cids, title \in cap.titles : rename_conversation(cookie, cid, title)
       \/ \E cid \in Cids : delete_conversation(cookie, cid)
       \/ \E cid \in Cids : history(cookie, cid)

Start(r) ==
    \E cookie \in Cookies, raw \in cap.texts, cid \in Cids :
       chat_start(r, cookie, raw, cid)

Turn(r) ==
    \/ chat_stamp_user(r)
    \/ chat_insert_user(r)
    \/ \E reply \in Replies : chat_llm_ok(r, reply)
    \/ chat_llm_fail(r)
    \/ chat_commit(r)

Gone(r) ==
    \/ chat_insert_user_fk(r)
    \/ chat_llm_ok_gone(r)
    \/ chat_commit_gone(r)

\* Requests served concurrently (a threaded or multi-process server).
Next ==
    \/ Short
    \/ \E r \in Reqs : Start(r) \/ Turn(r) \/ Gone(r)

Spec == Init /\ [][Next]_vars

\* Requests served one after the other.
SeqNext ==
    \/ AllIdle /\ Short
    \/ AllIdle /\ Start(1)
    \/ Turn(1)

SeqSpec == SeqInit /\ [][SeqNext]_vars

TextSpec == TextInit /\ [][SeqNext]_vars

StampSpec == StampInit /\ [][SeqNext]_vars

\* The chat turns of one client, one after the other.
WindowNext == (AllIdle /\ Start(1)) \/ Turn(1)

WindowSpec == WindowInit /\ [][WindowNext]_vars

(* ============================== properties ============================ *)
\* the rows of table ms a step added to those with the ids in `ids`
NewRows(ms, ids) == {m \in ms : m.id \notin ids}

\* what GET /history can show for conversation cid of table ms
HistoryOf(ms, cid) == OrderByCreatedAt(MessagesOf(ms, cid))

(* C1. Failure isolation of POST /chat: when the LLM call of a chat turn   *)
(* that passed validation and conversation resolution fails, the response  *)
(* is 503, the turn has stored the user's message and nothing else (every  *)
(* result of a following GET /history ends with it), and the title and     *)
(* updated_at of the conversation are the ones from before the request.    *)
C1_FailureIsolation ==
    [][\A r \in Reqs : chat_llm_fail(r) =>
         LET q    == reqs[r]
             cid  == q.conversation_id
             new  == NewRows(messages', q.pre.ids)
         IN
         /\ resp'.op = "chat" /\ resp'.status = 503
         /\ cid \in DOMAIN convs'
         /\ convs'[cid].title = q.pre.title
         /\ convs'[cid].updated_at = q.pre.updated_at
         /\ \E m \in new :
              /\ new = {m}
              /\ m.role = "user" /\ m.content = q.user_message
              /\ m.conversation_id = cid
              /\ \A h \in HistoryOf(messages', cid) : h[Len(h)] = m
         /\ \A m \in new : m.role # "assistant"
      ]_vars

\* a turn has ended 503 and the newest row of its conversation is a user message
C1_Witness ==
    /\ resp.op = "chat" /\ resp.status = 503 /\ AllIdle
    /\ \E c \in DOMAIN convs : \E m \in MessagesOf(messages, c) :
         /\ m.role = "user" /\ convs[c].user_id = resp.user
         /\ \A x \in messages : x.id <= m.id

(* C2. Ownership: a DELETE, PATCH or GET /history request that bears the   *)
(* cookie of an existing user A for a conversation owned by another user   *)
(* B receives 404 and leaves users, conversations and messages as they     *)
(* were.                                                                   *)
C2_Ownership ==
    [][\A a \in users : \A c \in DOMAIN convs :
         (convs[c].user_id # a /\ convs[c].user_id \in users) =>
           /\ \A title \in cap.titles :
                rename_conversation(a, c, title) =>
                  (resp'.status = 404 /\ UNCHANGED db)
           /\ delete_conversation(a, c) => (resp'.status = 404 /\ UNCHANGED db)
           /\ history(a, c) => (resp'.status = 404 /\ UNCHANGED db)
      ]_vars

\* a minted user's DELETE of another user's conversation was answered 404
C2_Witness ==
    /\ resp.op = "delete" /\ resp.status = 404
    /\ resp.cookie \in users /\ resp.cookie # ForgedId
    /\ resp.cid \in DOMAIN convs
    /\ convs[resp.cid].user_id \in users \ {resp.cookie}

(* C3. A POST /chat with a fresh identity (no cookie) and no conversation  *)
(* id, whose message is non-empty after trimming and at most 4000          *)
(* characters long, passes validation; when its LLM call succeeds it has   *)
(* added exactly one Conversation, owned by the resolved user, and exactly *)
(* two Messages in it, the user message first and the assistant message    *)
(* second, and it returns the new conversation's id.                       *)
C3_FreshChat ==
    [][\A r \in Reqs :
         /\ \A raw \in cap.texts :
              ( /\ chat_start(r, Absent, raw, NoCid)
                /\ Strip(raw) # <<>> /\ TLen(raw) <= MAX_MSG_LEN )
              => ( /\ reqs'[r].pc = "stamp"
                   /\ reqs'[r].user_message = Strip(raw) )
         /\ ( chat_commit(r) /\ reqs[r].cookie = Absent /\ reqs[r].cid = NoCid )
            => LET q   == reqs[r]
                   cid == q.conversation_id
                   new == NewRows(messages', q.pre.ids)
               IN
               /\ cid \notin q.pre.convs
               /\ DOMAIN convs' = q.pre.convs \cup {cid}
               /\ convs'[cid].user_id = q.user_id /\ q.user_id \in users'
               /\ MessagesOf(messages', cid) = new
               /\ \E u \in new, a \in new :
                    /\ new = {u, a} /\ u.id < a.id
                    /\ u.role = "user" /\ u.content = q.user_message
                    /\ a.role = "assistant" /\ a.content = q.reply
                    /\ HistoryOf(messages', cid) = {<<u, a>>}
               /\ resp'.status = 200
               /\ resp'.body.conversation_id = cid
      ]_vars

\* a cookie-less chat without conversation id was answered 200
C3_Witness ==
    /\ resp.op = "chat" /\ resp.status = 200
    /\ resp.cookie = Absent /\ resp.cid = NoCid
    /\ Cardinality(MessagesOf(messages, resp.body.conversation_id)) = 2

\* the canonical transcript: by created_at, ties by id
RECURSIVE Transcript(_)
Transcript(S) ==
    IF S = {} THEN <<>>
    ELSE LET m == CHOOSE x \in S : \A y \in S :
                    \/ x.created_at < y.created_at
                    \/ (x.created_at = y.created_at /\ x.id <= y.id)
         IN <<m>> \o Transcript(S \ {m})

Min(a, b) == IF a <= b THEN a ELSE b

(* C4. Context window: for a conversation holding n stored messages, the   *)
(* context a chat turn builds is the system instruction, then the last     *)
(* min(n, 20) messages of the transcript in transcript order, then the new *)
(* user message, min(n, 20) + 2 entries in all; the new message is the     *)
(* last entry only (it is no stored row yet).                              *)
C4_ContextWindow ==
    [][\A r \in Reqs :
         (reqs[r].pc = "idle" /\ reqs'[r].pc = "stamp") =>
           LET q   == reqs'[r]
               T   == Transcript(MessagesOf(messages, q.conversation_id))
               n   == Len(T)
               k   == Min(n, HISTORY_WINDOW)
               ctx == q.messages
           IN
           /\ Len(ctx) = k + 2
           /\ ctx[1] = Entry("system", SYSTEM_PROMPT)
           /\ \A i \in 1..k :
                ctx[i + 1] = Entry(T[n - k + i].role, T[n - k + i].content)
           /\ ctx[k + 2] = Entry("user", q.user_message)
           /\ \A m \in messages' : m.id \in q.pre.ids
      ]_vars

\* a turn has built its context from a transcript longer than the window
C4_Witness ==
    \E r \in Reqs :
       /\ reqs[r].pc = "stamp"
       /\ Len(reqs[r].history_msgs) > HISTORY_WINDOW
       /\ Len(reqs[r].messages) = HISTORY_WINDOW + 2

\* the step is a POST /chat in slot r that is answered without starting a turn
RejectedChat(r) ==
    /\ reqs[r].pc = "idle" /\ reqs'[r].pc = "idle"
    /\ resp'.op = "chat"
    /\ \E raw \in cap.texts : chat_start(r, resp'.cookie, raw, resp'.cid)

(* C5. A POST /chat that ends in 400 or 404 performs no durable write:     *)
(* users, conversations and messages are the same before and after it,     *)
(* whatever cookie it carries.                                             *)
C5_RejectedChatWritesNothing ==
    [][\A r \in Reqs :
         (RejectedChat(r) /\ resp'.status \in {400, 404}) => UNCHANGED db
      ]_vars

(* C5, amended.  A POST /chat that ends in 400 or 404 writes no            *)
(* conversation and no message; the user table is unchanged when the       *)
(* cookie names an existing user, and otherwise gains exactly the one User *)
(* the identity resolver persists before the message is looked at.         *)
C5_RejectedChatWritesOnlyUser ==
    [][\A r \in Reqs :
         (RejectedChat(r) /\ resp'.status \in {400, 404})
         => /\ UNCHANGED <<convs, messages, nconv>>
            /\ users' = users \cup {resp'.user}
            /\ resp'.cookie \in users => users' = users
            /\ resp'.cookie \notin users =>
                  (resp'.user \notin users
                     /\ Cardinality(users') = Cardinality(users) + 1)
      ]_vars

\* a chat without cookie was rejected and its new User is in the table
C5_Witness ==
    /\ resp.op = "chat" /\ resp.status \in {400, 404}
    /\ resp.cookie = Absent /\ resp.user \in users
    /\ AllIdle

(* C6. Stable identity: the response to a request without identity cookie  *)
(* carries the user_id cookie of the User persisted for it.                *)
C6_CookieOnEveryResponse ==
    (resp.op # "none" /\ resp.cookie = Absent) =>
       (resp.user \in users /\ resp.set_cookie = resp.user)

(* C7. Cascade: after a successful DELETE of a conversation by its owner   *)
(* the conversation no longer exists and no Message row references its id, *)
(* while every other conversation and its messages are unchanged.          *)
C7_Cascade ==
    [][\A a \in users : \A c \in DOMAIN convs :
         (convs[c].user_id = a /\ delete_conversation(a, c)) =>
           /\ resp'.status = 200
           /\ c \notin DOMAIN convs'
           /\ MessagesOf(messages', c) = {}
           /\ DOMAIN convs' = DOMAIN convs \ {c}
           /\ \A d \in DOMAIN convs' :
                /\ convs'[d] = convs[d]
                /\ MessagesOf(messages', d) = MessagesOf(messages, d)
      ]_vars

\* a conversation that held the oldest rows was deleted (ids start at 1) and
\* another conversation still holds messages
C7_Witness ==
    /\ resp.op = "delete" /\ resp.status = 200
    /\ resp.cid \notin DOMAIN convs
    /\ messages # {}
    /\ \A m \in messages : m.id > 1 /\ m.conversation_id \in DOMAIN convs

\* the title the claims derive from a user message: the message itself up to
\* 30 characters, its first 30 characters and one ellipsis beyond
Derivation(text) ==
    IF TLen(text) <= TITLE_PREVIEW THEN text
    ELSE Take(text, TITLE_PREVIEW) \o ELLIPSIS

(* C8. Title derivation on a successful chat turn: if the conversation's   *)
(* title is the placeholder when the reply is stored, the title becomes    *)
(* the user message itself when it has at most 30 characters and its       *)
(* first 30 characters followed by one ellipsis when it has more; if the   *)
(* title is not the placeholder, the turn leaves it unchanged.             *)
C8_TitleDerivation ==
    [][\A r \in Reqs : chat_commit(r) =>
         LET q   == reqs[r]
             cid == q.conversation_id
         IN
         /\ convs[cid].title = NUEVO_CHAT =>
              convs'[cid].title = Derivation(q.user_message)
         /\ convs[cid].title # NUEVO_CHAT =>
              convs'[cid].title = convs[cid].title
      ]_vars

\* a successful turn has left a title of 30 characters and the ellipsis
C8_Witness ==
    /\ resp.op = "chat" /\ resp.status = 200
    /\ LET t == convs[resp.body.conversation_id].title IN
         /\ TLen(t) = TITLE_PREVIEW + 1
         /\ t[Len(t)] = ELLIPSIS[1]

\* conversation c was created with the placeholder and never renamed
Auto(cs, c) == cs[c].auto

\* the user messages of S, oldest id first
UserMsgs(S) == {m \in S : m.role = "user"}
FirstById(S) == CHOOSE m \in S : \A x \in S : m.id <= x.id

(* C9. For a conversation created with the placeholder title and never     *)
(* renamed: whenever the title is not the placeholder it equals the        *)
(* derivation of the first user message stored in that conversation.       *)
C9_TitleFromFirstUserMessage ==
    \A c \in DOMAIN convs :
       (Auto(convs, c) /\ convs[c].title # NUEVO_CHAT) =>
          /\ UserMsgs(MessagesOf(messages, c)) # {}
          /\ convs[c].title =
               Derivation(FirstById(UserMsgs(MessagesOf(messages, c))).content)

\* the user messages of S whose turn stored its reply: the next row of the
\* conversation is an assistant message
Answered(S) ==
    {m \in UserMsgs(S) :
       \E a \in S : /\ a.role = "assistant" /\ a.id > m.id
                    /\ \A x \in S : ~(m.id < x.id /\ x.id < a.id)}

\* those among them whose derivation is not the placeholder itself
Deriving(S) == {m \in Answered(S) : Derivation(m.content) # NUEVO_CHAT}

TitleFromFirstAnsweredTurn(cs, ms) ==
    \A c \in DOMAIN cs :
       (Auto(cs, c) /\ cs[c].title # NUEVO_CHAT) =>
          /\ Deriving(MessagesOf(ms, c)) # {}
          /\ cs[c].title =
               Derivation(FirstById(Deriving(MessagesOf(ms, c))).content)

(* C9, amended.  For a conversation created with the placeholder title     *)
(* and never renamed, with requests served one after the other: whenever   *)
(* the title is not the placeholder it equals the derivation of the user   *)
(* message of the first chat turn whose reply was stored and whose         *)
(* derivation is not the placeholder itself (a failed turn stores its user *)
(* message and derives no title), and no later step changes it.            *)
C9_TitleFromFirstAnsweredTurn ==
    [][ /\ TitleFromFirstAnsweredTurn(convs', messages')
        /\ \A c \in DOMAIN convs \cap DOMAIN convs' :
             (Auto(convs, c) /\ Auto(convs', c) /\ convs[c].title # NUEVO_CHAT)
                => convs'[c].title = convs[c].title
      ]_vars

\* a failed turn, then an answered one: the title is derived from the second
\* user message of the conversation
C9_Witness ==
    \E c \in DOMAIN convs :
       LET S == MessagesOf(messages, c) IN
       /\ Auto(convs, c) /\ convs[c].title # NUEVO_CHAT
       /\ Deriving(S) # {}
       /\ FirstById(Deriving(S)) # FirstById(UserMsgs(S))

(* C10. For all inputs to POST /chat longer than 4000 characters, the      *)
(* content of the stored user message has exactly 4000 characters.         *)
C10_OverlongStoredAs4000 ==
    [][\A r \in Reqs :
         (chat_insert_user(r) /\ TLen(reqs[r].raw) > MAX_MSG_LEN) =>
           \A m \in NewRows(messages', {x.id : x \in messages}) :
              TLen(m.content) = MAX_MSG_LEN
      ]_vars

(* C10, amended.  The stored user message is the input with its            *)
(* surrounding whitespace trimmed when that has at most 4000 characters,   *)
(* and the first 4000 characters of the trimmed input (exactly 4000        *)
(* characters) when the trimmed input is longer.                           *)
C10_TrimmedThenCut ==
    [][\A r \in Reqs : chat_insert_user(r) =>
         LET t   == Strip(reqs[r].raw)
             new == NewRows(messages', {x.id : x \in messages})
         IN
         /\ Cardinality(new) = 1
         /\ \A m \in new :
              /\ m.role = "user"
              /\ TLen(t) <= MAX_MSG_LEN => m.content = t
              /\ TLen(t) > MAX_MSG_LEN =>
                   (m.content = Take(t, MAX_MSG_LEN)
                      /\ TLen(m.content) = MAX_MSG_LEN)
      ]_vars

\* the user message of a padded input of more than 4000 characters is stored
C10_Witness ==
    \E r \in Reqs :
       /\ reqs[r].pc = "llm"
       /\ TLen(Strip(reqs[r].raw)) > MAX_MSG_LEN
       /\ Strip(reqs[r].raw) # reqs[r].raw
       /\ \E m \in messages :
            /\ m.content = reqs[r].user_message /\ m.role = "user"
            /\ TLen(m.content) = MAX_MSG_LEN

\* the conversations of table cs owned by user u
OwnedBy(cs, u) == {c \in DOMAIN cs : cs[c].user_id = u}

(* C11. Rename changes the title only: a PATCH /conversations/{id} by the  *)
(* owner that is answered 200 leaves the conversation's updated_at,        *)
(* created_at and owner, every other conversation and all messages as      *)
(* they were, and with them the orders GET /conversations can list the     *)
(* owner's conversations in.                                               *)
C11_RenameOnlyTitle ==
    [][\A cookie \in Cookies, cid \in Cids, title \in cap.titles :
         (rename_conversation(cookie, cid, title) /\ resp'.status = 200) =>
           /\ DOMAIN convs' = DOMAIN convs
           /\ \A c \in DOMAIN convs :
                /\ convs'[c].updated_at = convs[c].updated_at
                /\ convs'[c].created_at = convs[c].created_at
                /\ convs'[c].user_id = convs[c].user_id
                /\ c # cid => convs'[c].title = convs[c].title
           /\ messages' = messages
           /\ OrderByUpdatedDesc(OwnedBy(convs', resp'.user), convs')
                = OrderByUpdatedDesc(OwnedBy(convs, resp'.user), convs)
      ]_vars

(* C12. Create: POST /conversations stores one new conversation, owned by  *)
(* the resolved user, whose title is the placeholder when no title is      *)
(* supplied or the supplied title is empty after trimming, and the         *)
(* supplied title otherwise.                                               *)
C12_CreateTitle ==
    [][\A cookie \in Cookies, title \in cap.titles :
         create_conversation(cookie, title) =>
           \E id \in DOMAIN convs' \ DOMAIN convs :
              /\ DOMAIN convs' = DOMAIN convs \cup {id}
              /\ convs'[id].user_id = resp'.user
              /\ resp'.user \in users'
              /\ convs'[id].title =
                   IF Strip(title) = <<>> THEN NUEVO_CHAT ELSE title
      ]_vars

(* C13. List: the body of GET /conversations names every conversation of   *)
(* the resolved user once, none of another user, by updated_at descending, *)
(* whatever creates, chat turns, renames and deletes by any users came     *)
(* before.                                                                 *)
C13_ListOwnedByUpdatedDesc ==
    [][\A cookie \in Cookies : list_conversations(cookie) =>
         LET l == resp'.body
             u == resp'.user
         IN
         /\ resp'.status = 200
         /\ cookie # Absent => u = cookie
         /\ cookie = Absent => u \notin users
         /\ {l[i] : i \in 1..Len(l)} = OwnedBy(convs', u)
         /\ Len(l) = Cardinality(OwnedBy(convs', u))
         /\ \A i, j \in 1..Len(l) :
              i < j => convs'[l[i]].updated_at >= convs'[l[j]].updated_at
      ]_vars

\* a list of two conversations, the older one first because it was touched
\* later, while another user owns no listed conversation
C13_Witness ==
    /\ resp.op = "list" /\ resp.status = 200 /\ Len(resp.body) = 2
    /\ resp.body[1] < resp.body[2]
    /\ \A i \in 1..2 :
         /\ resp.body[i] \in DOMAIN convs
         /\ convs[resp.body[i]].user_id = resp.user
    /\ convs[resp.body[1]].updated_at > convs[resp.body[2]].updated_at
    /\ users # {resp.user}

(* C14. The resolver never persists a User under an id a client supplied:  *)
(* every User row a step adds has a freshly minted id, different from      *)
(* every cookie value the server did not issue.                            *)
C14_NoClientSuppliedUserId ==
    [][\A u \in users' \ users : u \notin cap.cookies]_vars

(* C15. Accepted race of two chat turns on one conversation: the context   *)
(* sent to the LLM is the system prompt, the messages the conversation     *)
(* held when the turn loaded its history and the turn's own message; a     *)
(* message another turn stored after that is not in it, even when it was   *)
(* stored before the LLM call was made, and no lock keeps the other turn   *)
(* from storing it.                                                        *)
C15_ContextFromTurnStart ==
    [][\A r \in Reqs, reply \in Replies : chat_llm_ok(r, reply) =>
         LET q == reqs[r] IN
         /\ Len(q.messages) = Cardinality(q.pre.rows) + 2
         /\ \E h \in OrderByCreatedAt(q.pre.rows) :
              q.messages =
                <<[role |-> "system", content |-> SYSTEM_PROMPT]>>
                \o [i \in 1..Len(h) |->
                      [role |-> h[i].role, content |-> h[i].content]]
                \o <<[role |-> "user", content |-> q.user_message]>>
      ]_vars

\* the LLM has answered a turn whose context lacks the user message that
\* another turn, answered 200 since, had stored in the conversation before
\* this turn stored its own message and called the LLM
C15_Witness ==
    \E r \in Reqs :
       LET q == reqs[r] IN
       /\ q.pc = "commit"
       /\ q.conversation_id \in DOMAIN convs
       /\ \A o \in Reqs \ {r} : reqs[o].pc = "idle"
       /\ resp.op = "chat" /\ resp.status = 200
       /\ resp.body.conversation_id = q.conversation_id
       /\ Len(q.messages) = Cardinality(q.pre.rows) + 2
       /\ \E m, a \in MessagesOf(messages, q.conversation_id) :
            /\ m.role = "user" /\ m \notin q.pre.rows
            /\ m.id < q.user_msg_id
            /\ a.role = "assistant" /\ a \notin q.pre.rows /\ a.id > m.id

\* every message row references a conversation row, every conversation row a
\* user row
RefInt ==
    /\ \A m \in messages : m.conversation_id \in DOMAIN convs
    /\ \A c \in DOMAIN convs : convs[c].user_id \in users

(* C16. Referential integrity under any interleaving of requests: every    *)
(* stored message references an existing conversation and every stored     *)
(* conversation an existing user; a chat turn whose conversation was       *)
(* deleted while it was in flight stores no message, does not bring the    *)
(* conversation back and ends with an error: 503 when its LLM call         *)
(* fails, 500 at its next access to the database otherwise.                *)
C16_ReferentialIntegrity ==
    /\ []RefInt
    /\ [][\A r \in Reqs :
            (reqs[r].pc # "idle" /\ reqs'[r] # reqs[r]
               /\ reqs[r].conversation_id \notin DOMAIN convs) =>
              /\ messages' = messages
              /\ convs' = convs
              /\ reqs[r].pc # "stamp" =>
                   /\ reqs'[r].pc = "idle"
                   /\ resp'.op = "chat" /\ resp'.status \in {500, 503}
         ]_vars

\* a turn waits for the LLM while its conversation, and with it the user
\* message the turn had stored, has been deleted
C16_Witness ==
    \E r \in Reqs :
       /\ reqs[r].pc = "llm"
       /\ reqs[r].conversation_id \notin DOMAIN convs
       /\ reqs[r].conversation_id <= nconv
       /\ \A m \in messages : m.id # reqs[r].user_msg_id

(* C17. updated_at never goes back: no step replaces the updated_at of a   *)
(* conversation by an earlier timestamp, with requests one at a time or    *)
(* with chat turns and renames on the conversation in flight together.     *)
C17_UpdatedAtMonotonic ==
    [][\A c \in DOMAIN convs \cap DOMAIN convs' :
         convs'[c].updated_at >= convs[c].updated_at]_vars

\* the rows of sequence h come in the order of their ids
IdOrdered(h) == \A i, j \in 1..Len(h) : i < j => h[i].id < h[j].id

(* C18. Canonical transcript order: GET /history returns all the messages  *)
(* of the conversation in the order of their ids, also when two of them    *)
(* have the same created_at, and the history a chat turn loads for its     *)
(* context comes in the same order.                                        *)
C18_TranscriptInIdOrder ==
    [][/\ \A cookie \in Cookies, cid \in Cids :
            (history(cookie, cid) /\ resp'.status = 200) =>
              /\ IdOrdered(resp'.body)
              /\ {resp'.body[i] : i \in 1..Len(resp'.body)}
                   = MessagesOf(messages, cid)
              /\ Len(resp'.body) = Cardinality(MessagesOf(messages, cid))
       /\ \A r \in Reqs :
            (reqs[r].pc = "idle" /\ reqs'[r].pc = "stamp") =>
              IdOrdered(reqs'[r].history_msgs)
      ]_vars

\* the rows of S with the largest id
Newest(S) == {m \in S : \A x \in S : x.id <= m.id}

(* C19. updated_at is refreshed on every new message: whenever no request  *)
(* is in progress, every conversation that holds a message has an          *)
(* updated_at not earlier than the created_at of its newest message.       *)
C19_UpdatedAtCoversNewest ==
    AllIdle =>
      \A c \in DOMAIN convs :
         \A m \in Newest(MessagesOf(messages, c)) :
            convs[c].updated_at >= m.created_at

(* C20. Transcript shape: every stored message has role user or            *)
(* assistant, and in every conversation every prefix of the messages in    *)
(* id order holds at least as many user messages as assistant messages.    *)
C20_TranscriptShape ==
    /\ \A m \in messages : m.role \in {"user", "assistant"}
    /\ \A m \in messages :
         LET P == {x \in MessagesOf(messages, m.conversation_id) : x.id <= m.id}
         IN Cardinality({x \in P : x.role = "user"})
              >= Cardinality({x \in P : x.role = "assistant"})

\* two turns in flight together have both been answered: in id order the
\* conversation holds two user messages, then two assistant messages
C20_Witness ==
    /\ AllIdle
    /\ \E c \in DOMAIN convs :
         \E u1, u2, a1, a2 \in MessagesOf(messages, c) :
            /\ u1.id < u2.id /\ u2.id < a1.id /\ a1.id < a2.id
            /\ u1.role = "user" /\ u2.role = "user"
            /\ a1.role = "assistant" /\ a2.role = "assistant"

====
